---- MODULE Spec2Model ----
(***************************************************************************)
(* Model of backend/crawlconfigs.py: the CrawlOps operations and the       *)
(* /crawlconfigs routes, run by concurrent request handlers against the    *)
(* crawl_configs collection and the crawl manager (the orchestrator).      *)
(***************************************************************************)
EXTENDS Integers, Sequences, FiniteSets, Bags, TLC

\* ---------------------------------------------------------------- bounds
MaxIds == 2
MaxHandlers == 2
MaxCount == 2
MaxOps == 3

Ids == 1..MaxIds

Archives == {"a1", "a2"}
Users == {"u1"}
Schedules == {"", "s1", "s2"}
NoArchive == "none"

\* CrawlConfigIn payloads submitted via the API (schedule, runNow,
\* crawlTimeout, parallel, config); pydantic accepts any int for parallel.
CrawlConfigIn ==
    { [schedule |-> "",   runNow |-> TRUE,  crawlTimeout |-> 0,  parallel |-> 0, config |-> "cfgA"],
      [schedule |-> "s1", runNow |-> FALSE, crawlTimeout |-> 30, parallel |-> 1, config |-> "cfgB"] }

VARIABLES
    store,      \* crawl_configs collection: _id -> document
    orch,       \* crawl manager: registered configuration id -> [archive, schedule]
    inflight,   \* bag of the request handlers suspended at an await, with their locals
    ret,        \* the response given in the latest step, if any, with the crawl manager calls made
    ops,        \* operations started so far
    issued,     \* number of ids uuid4 has handed out
    incDone,    \* per id: inc_crawls calls that returned normally on an existing record
    clean,      \* history so far is sequential, fault free and issued by owners
    raced,      \* ids on which a Delete and a scheduling UpdateSchedule have overlapped
    forked      \* ids on which two UpdateSchedule calls with different schedules have
                \* overlapped and succeeded, no other kind of operation running or started since

vars == <<store, orch, inflight, ret, ops, issued, incDone, clean, raced, forked>>

\* ------------------------------------------------------------- helpers
\* a handler: the await it is suspended at (pc) and its locals. solo is the
\* sequence number of an UpdateSchedule that started with no other handler
\* in progress, 0 otherwise; again marks an UpdateSchedule that repeats the
\* UpdateSchedule which ran just before it, retry one that repeats an
\* UpdateSchedule whose orchestrator call failed just before it
Op(pc, cid, archive, schedule, runNow, calls, solo, again, retry) ==
    [pc |-> pc, cid |-> cid, archive |-> archive, schedule |-> schedule,
     runNow |-> runNow, calls |-> calls, solo |-> solo, again |-> again,
     retry |-> retry]

NoOp == Op("", 0, NoArchive, "", FALSE, <<>>, 0, FALSE, FALSE)

\* what a handler answers: HTTP status and detail, plus which call failed
\* and the crawl manager calls the operation made
Response(op, a, status, detail, failed) ==
    [op |-> op, cid |-> a.cid, archive |-> a.archive, schedule |-> a.schedule,
     status |-> status, detail |-> detail, failed |-> failed,
     deleted |-> 0, job |-> FALSE, calls |-> a.calls, solo |-> a.solo, again |-> a.again,
     retry |-> a.retry]

NoRet == Response("none", NoOp, 0, "", "")

Called(a, name) == [a EXCEPT !.calls = Append(@, name)]

Handlers == BagToSet(inflight)

AllIdle == Handlers = {}

Owns(archive, cid) == cid \in DOMAIN store => store[cid].archive = archive

Put(f, k, v) == [x \in (DOMAIN f) \cup {k} |-> IF x = k THEN v ELSE f[x]]
Drop(f, ks) == [x \in (DOMAIN f) \ ks |-> f[x]]

\* ------------------------------------------------- record store (Mongo)
\* faulty variant: only schedule and config are taken from the input
NewDoc_defaults(config, archive, user) ==
    [archive |-> archive, user |-> user,
     schedule |-> config.schedule, runNow |-> FALSE,
     crawlTimeout |-> 0, parallel |-> 1,
     config |-> config.config, crawlCount |-> 0]

\* data built by add_crawl_config: config.dict() plus archive, user, _id
NewDoc(config, archive, user) ==
    [archive |-> archive, user |-> user,
     schedule |-> config.schedule, runNow |-> config.runNow,
     crawlTimeout |-> config.crawlTimeout, parallel |-> config.parallel,
     config |-> config.config, crawlCount |-> 0]

insert_one(s, cid, doc) == Put(s, cid, doc)

\* faulty variant: the update writes nothing back
set_schedule_lost(s, cid, schedule) == s

\* faulty variant: the update also bumps the run counter
set_schedule_bump(s, cid, schedule) ==
    IF cid \in DOMAIN s
    THEN [s EXCEPT ![cid].schedule = schedule, ![cid].crawlCount = @ + 1] ELSE s

\* faulty variant: the update rewrites the record with a fresh run counter
set_schedule_reset(s, cid, schedule) ==
    IF cid \in DOMAIN s
    THEN [s EXCEPT ![cid].schedule = schedule, ![cid].crawlCount = 0] ELSE s

set_schedule(s, cid, schedule) ==
    IF cid \in DOMAIN s THEN [s EXCEPT ![cid].schedule = schedule] ELSE s

\* faulty variant: read-then-write of a counter read when it was 0
inc_crawlCount_stale(s, cid) ==
    IF cid \in DOMAIN s THEN [s EXCEPT ![cid].crawlCount = 1] ELSE s

\* faulty variant: the increment upserts a document for a missing id
inc_crawlCount_upsert(s, cid) ==
    IF cid \in DOMAIN s THEN [s EXCEPT ![cid].crawlCount = @ + 1]
    ELSE Put(s, cid, [archive |-> NoArchive, user |-> "", schedule |-> "", runNow |-> FALSE,
                      crawlTimeout |-> 0, parallel |-> 1, config |-> "", crawlCount |-> 1])

inc_crawlCount(s, cid) ==
    IF cid \in DOMAIN s THEN [s EXCEPT ![cid].crawlCount = @ + 1] ELSE s

\* faulty variant: the update upserts, so a document always comes back
find_one_and_update_upsert(s, cid) ==
    IF cid \in DOMAIN s THEN <<s[cid]>> ELSE <<NoOp>>

\* find_one_and_update({"_id": cid}, ...): the matched document, if any
find_one_and_update(s, cid) ==
    IF cid \in DOMAIN s THEN <<s[cid]>> ELSE <<>>

\* faulty variant: the lookup filters on the id only
find_one_any_archive(s, cid, archive) ==
    IF cid \in DOMAIN s THEN <<s[cid]>> ELSE <<>>

find_one(s, cid, archive) ==
    IF cid \in DOMAIN s /\ s[cid].archive = archive THEN <<s[cid]>> ELSE <<>>

delete_one(s, cid, archive) ==
    IF cid \in DOMAIN s /\ s[cid].archive = archive THEN Drop(s, {cid}) ELSE s

delete_many(s, archive) ==
    Drop(s, {c \in DOMAIN s : s[c].archive = archive})

deleted_count(before, after) == Cardinality(DOMAIN before) - Cardinality(DOMAIN after)

\* BaseMongoModel.from_dict: no document gives no model, a document gives a
\* CrawlConfig built from its fields
from_dict(res) ==
    IF res = <<>> THEN <<>>
    ELSE <<[schedule |-> res[1].schedule, runNow |-> res[1].runNow,
            archive |-> res[1].archive, user |-> res[1].user,
            config |-> res[1].config,
            crawlTimeout |-> res[1].crawlTimeout, parallel |-> res[1].parallel,
            crawlCount |-> res[1].crawlCount]>>

get_crawl_config(cid, archive) == from_dict(find_one(store, cid, archive))

\* ------------------------------------------------- orchestrator client
\* registerJob: the configuration is registered under its id with its
\* archive; a recurring job exists when the schedule is non-empty
registerJob(o, cid, archive, schedule) ==
    Put(o, cid, [archive |-> archive, schedule |-> schedule])

\* deregisterJob(id)
deregisterJob(o, cid) == Drop(o, {cid})

\* reconcileSchedule(id, newSchedule): empty removes the recurring job,
\* otherwise create-or-replace the recurring job keyed by id
reconcileSchedule(o, cid, schedule) ==
    IF cid \in DOMAIN o THEN [o EXCEPT ![cid].schedule = schedule]
    ELSE IF schedule = "" THEN o
    ELSE Put(o, cid, [archive |-> NoArchive, schedule |-> schedule])

\* deregister the jobs of every configuration of the archive
deregisterArchive(o, archive) ==
    Drop(o, {c \in DOMAIN o : o[c].archive = archive})


ArchiveJobs(o, archive) == {c \in DOMAIN o : o[c].archive = archive}

\* triggerImmediateRun(id, currentConfig): an ad hoc run, registrations untouched
triggerImmediateRun(o, cid) == o

HasJob(cid) == cid \in DOMAIN orch /\ orch[cid].schedule # ""

\* ------------------------------------------------------------- initial
Init ==
    /\ store = [x \in {} |-> NoOp]
    /\ orch = [x \in {} |-> NoOp]
    /\ inflight = EmptyBag
    /\ ret = NoRet
    /\ ops = 0
    /\ issued = 0
    /\ incDone = [c \in Ids |-> 0]
    /\ clean = TRUE
    /\ raced = {}
    /\ forked = {}

\* a request reaches a free handler
Start ==
    /\ BagCardinality(inflight) < MaxHandlers
    /\ ops < MaxOps
    /\ ops' = ops + 1

\* the handler suspends at its next await
Suspend(a) ==
    /\ inflight' = inflight (+) SetToBag({a})
    /\ ret' = NoRet

\* the handler answers its caller without having suspended
Answer(r) ==
    /\ UNCHANGED inflight
    /\ ret' = r

\* handler a resumes from the await it is suspended at
Resume(a, label) ==
    /\ a \in Handlers
    /\ a.pc = label
    /\ UNCHANGED ops

\* resumed handler a answers its caller
Finish(a, r) ==
    /\ inflight' = inflight (-) SetToBag({a})
    /\ ret' = r

\* str(uuid.uuid4()): an id never handed out before
uuid4 == issued + 1

\* sequence number of an operation that starts now: 0 when it overlaps another
Solo == IF AllIdle THEN ops + 1 ELSE 0

\* the latest operation was a successful UpdateSchedule(cid, schedule) that
\* overlapped no other operation and has just been answered
Updated(cid, schedule) ==
    /\ ret.op = "update" /\ ret.status = 200 /\ ret.cid = cid /\ ret.schedule = schedule
    /\ ret.solo = ops

\* the latest operation was an UpdateSchedule(cid, schedule) that overlapped
\* no other operation, wrote the store, failed on its orchestrator call and
\* has just been answered
Unsynced(cid, schedule) ==
    /\ ret.op = "update" /\ ret.failed = "orch" /\ ret.cid = cid /\ ret.schedule = schedule
    /\ ret.solo = ops

\* ------------------------------------------------------------- Create
\* POST /crawlconfigs/ up to the await on insert_one
add_crawl_config_insert(config, archive, user) ==
    /\ Start
    /\ forked' = {}
    /\ issued < MaxIds
    /\ issued' = issued + 1
    /\ UNCHANGED <<orch, incDone, raced>>
    /\ LET a == Op("add_register", uuid4, archive, config.schedule, config.runNow, <<>>, 0, FALSE, FALSE) IN
       \/ /\ store' = insert_one(store, uuid4, NewDoc(config, archive, user))
          /\ Suspend(a)
          /\ clean' = (clean /\ AllIdle)
       \/ /\ UNCHANGED store
          /\ Answer(Response("add", a, 500, "Internal Server Error", "store"))
          /\ clean' = FALSE

\* faulty variant: a failed registration rolls the inserted record back
add_crawl_config_register_rollback(a) ==
    /\ Resume(a, "add_register")
    /\ UNCHANGED <<issued, incDone, raced, forked>>
    /\ LET b == Called(a, "add_crawl_config") IN
       \/ /\ orch' = registerJob(orch, a.cid, a.archive, a.schedule)
          /\ UNCHANGED store
          /\ Finish(a, [Response("add", b, 200, "added", "") EXCEPT !.job = a.runNow])
          /\ UNCHANGED clean
       \/ /\ UNCHANGED orch
          /\ store' = delete_one(store, a.cid, a.archive)
          /\ Finish(a, Response("add", b, 500, "Internal Server Error", "orch"))
          /\ clean' = FALSE

\* add_crawl_config from the await on crawl_manager.add_crawl_config on
add_crawl_config_register(a) ==
    /\ Resume(a, "add_register")
    /\ UNCHANGED <<store, issued, incDone, raced, forked>>
    /\ LET b == Called(a, "add_crawl_config") IN
       \/ /\ orch' = registerJob(orch, a.cid, a.archive, a.schedule)
          /\ Finish(a, [Response("add", b, 200, "added", "") EXCEPT !.job = a.runNow])
          /\ UNCHANGED clean
       \/ /\ UNCHANGED orch
          /\ Finish(a, Response("add", b, 500, "Internal Server Error", "orch"))
          /\ clean' = FALSE

\* ----------------------------------------------------- UpdateSchedule
\* str(e) of what an awaited call can raise; the store driver and the crawl
\* manager are both network clients
Exceptions == {"timed out", "connection refused"}

\* the route's detail for an exception e raised inside ops.update_crawl_schedule
UpdateError(e) == "Error updating crawl config: " \o e

\* what the route answers when the store update raises
UpdateStoreFailures == {[status |-> 403, detail |-> UpdateError(e)] : e \in Exceptions}

\* PATCH /{cid}/schedule up to the await on find_one_and_update; archive is
\* the caller's archive resolved by archive_crawl_dep, which the handler
\* does not pass on to update_crawl_schedule
update_crawl_schedule_store(cid, schedule, archive) ==
    /\ Start
    /\ UNCHANGED <<orch, issued, incDone>>
    /\ LET a == Op("update_orch", cid, NoArchive, schedule, FALSE, <<>>, Solo,
                   AllIdle /\ Updated(cid, schedule), AllIdle /\ Unsynced(cid, schedule)) IN
       \/ /\ find_one_and_update(store, cid) # <<>>
          /\ store' = set_schedule(store, cid, schedule)
          /\ Suspend(a)
          /\ clean' = (clean /\ AllIdle /\ Owns(archive, cid))
          /\ raced' = IF schedule # "" /\ \E d \in Handlers : d.pc = "delete_store" /\ d.cid = cid
                      THEN raced \cup {cid} ELSE raced
          /\ forked' = IF /\ \A u \in Handlers : u.pc = "update_orch"
                          /\ \E u \in Handlers : u.cid = cid /\ u.schedule # schedule
                       THEN forked \cup {cid} ELSE forked
       \/ /\ find_one_and_update(store, cid) = <<>>
          /\ store' = set_schedule(store, cid, schedule)
          /\ Answer(Response("update", a, 404, "not found", ""))
          /\ clean' = (clean /\ AllIdle)
          /\ UNCHANGED <<raced, forked>>
       \/ /\ UNCHANGED <<store, raced, forked>>
          /\ \E o \in UpdateStoreFailures :
                Answer(Response("update", a, o.status, o.detail, "store"))
          /\ clean' = FALSE

\* faulty variant: the orchestrator is left alone and the update reported done
update_crawl_schedule_orch_noop(a) ==
    /\ Resume(a, "update_orch")
    /\ UNCHANGED <<store, issued, incDone, raced>>
    /\ LET b == Called(a, "update_crawl_schedule") IN
       \/ /\ orch' = orch
          /\ Finish(a, Response("update", b, 200, "updated", ""))
          /\ UNCHANGED <<clean, forked>>
       \/ /\ UNCHANGED orch
          /\ \E e \in Exceptions :
                Finish(a, Response("update", b, 403, UpdateError(e), "orch"))
          /\ clean' = FALSE
          /\ forked' = forked \ {a.cid}

\* update_crawl_schedule from the await on crawl_manager.update_crawl_schedule on
update_crawl_schedule_orch(a) ==
    /\ Resume(a, "update_orch")
    /\ UNCHANGED <<store, issued, incDone, raced>>
    /\ LET b == Called(a, "update_crawl_schedule") IN
       \/ /\ orch' = reconcileSchedule(orch, a.cid, a.schedule)
          /\ Finish(a, Response("update", b, 200, "updated", ""))
          /\ UNCHANGED <<clean, forked>>
       \/ /\ UNCHANGED orch
          /\ \E e \in Exceptions :
                Finish(a, Response("update", b, 403, UpdateError(e), "orch"))
          /\ clean' = FALSE
          /\ forked' = forked \ {a.cid}

\* --------------------------------------------------- IncrementRunCount
\* inc_crawls: one atomic find_one_and_update with $inc
inc_crawls(cid) ==
    /\ Start
    /\ forked' = {}
    /\ cid \in DOMAIN store => store[cid].crawlCount < MaxCount
    /\ UNCHANGED <<orch, issued, raced>>
    /\ LET a == Op("", cid, NoArchive, "", FALSE, <<>>, 0, FALSE, FALSE) IN
       \/ /\ store' = inc_crawlCount(store, cid)
          /\ incDone' = [incDone EXCEPT ![cid] = IF cid \in DOMAIN store THEN @ + 1 ELSE @]
          /\ Answer(Response("inc", a, 0, "returned", ""))
          /\ clean' = (clean /\ AllIdle)
       \/ /\ UNCHANGED <<store, incDone>>
          /\ Answer(Response("inc", a, 0, "raised", "store"))
          /\ clean' = FALSE

\* ----------------------------------------------------------- TriggerRun
\* POST /{cid}/run up to the await on get_crawl_config
run_now_get(cid, archive) ==
    /\ Start
    /\ forked' = {}
    /\ UNCHANGED <<store, orch, issued, incDone, raced>>
    /\ LET a == Op("run_orch", cid, archive, "", FALSE, <<>>, 0, FALSE, FALSE) IN
       \/ /\ get_crawl_config(cid, archive) # <<>>
          /\ Suspend(a)
          /\ clean' = (clean /\ AllIdle)
       \/ /\ get_crawl_config(cid, archive) = <<>>
          /\ Answer(Response("run", a, 404, "not found", ""))
          /\ clean' = (clean /\ AllIdle)
       \/ /\ Answer(Response("run", a, 500, "Internal Server Error", "store"))
          /\ clean' = FALSE

\* faulty variant: a started run is counted on the record right away
run_now_orch_counts(a) ==
    /\ Resume(a, "run_orch")
    /\ UNCHANGED <<issued, incDone, raced, forked>>
    /\ LET b == Called(a, "run_crawl_config") IN
       \/ /\ orch' = triggerImmediateRun(orch, a.cid)
          /\ store' = inc_crawlCount(store, a.cid)
          /\ Finish(a, Response("run", b, 200, "started", ""))
          /\ UNCHANGED clean
       \/ /\ UNCHANGED <<orch, store>>
          /\ Finish(a, Response("run", b, 500, "Error starting crawl", "orch"))
          /\ clean' = FALSE

\* run_now from the await on crawl_manager.run_crawl_config on
run_now_orch(a) ==
    /\ Resume(a, "run_orch")
    /\ UNCHANGED <<store, issued, incDone, raced, forked>>
    /\ LET b == Called(a, "run_crawl_config") IN
       \/ /\ orch' = triggerImmediateRun(orch, a.cid)
          /\ Finish(a, Response("run", b, 200, "started", ""))
          /\ UNCHANGED clean
       \/ /\ UNCHANGED orch
          /\ Finish(a, Response("run", b, 500, "Error starting crawl", "orch"))
          /\ clean' = FALSE

\* --------------------------------------------------------------- Delete
\* faulty variant: the record is removed even when deregistration raised
delete_crawl_config_dereg_anyway(cid, archive) ==
    /\ Start
    /\ forked' = {}
    /\ UNCHANGED <<issued, incDone>>
    /\ LET a == Op("delete_store", cid, archive, "", FALSE, <<"delete_crawl_config_by_id">>, 0, FALSE, FALSE) IN
       \/ /\ orch' = deregisterJob(orch, cid)
          /\ UNCHANGED store
          /\ Suspend(a)
          /\ clean' = (clean /\ AllIdle /\ Owns(archive, cid))
          /\ raced' = IF \E u \in Handlers : /\ u.pc = "update_orch"
                                             /\ u.cid = cid
                                             /\ u.schedule # ""
                      THEN raced \cup {cid} ELSE raced
       \/ /\ UNCHANGED <<orch, raced>>
          /\ store' = delete_one(store, cid, archive)
          /\ Answer(Response("delete", a, 500, "Internal Server Error", "orch"))
          /\ clean' = FALSE

\* DELETE /{cid} up to the await on crawl_manager.delete_crawl_config_by_id
delete_crawl_config_dereg(cid, archive) ==
    /\ Start
    /\ forked' = {}
    /\ UNCHANGED <<store, issued, incDone>>
    /\ LET a == Op("delete_store", cid, archive, "", FALSE, <<"delete_crawl_config_by_id">>, 0, FALSE, FALSE) IN
       \/ /\ orch' = deregisterJob(orch, cid)
          /\ Suspend(a)
          /\ clean' = (clean /\ AllIdle /\ Owns(archive, cid))
          /\ raced' = IF \E u \in Handlers : /\ u.pc = "update_orch"
                                             /\ u.cid = cid
                                             /\ u.schedule # ""
                      THEN raced \cup {cid} ELSE raced
       \/ /\ UNCHANGED <<orch, raced>>
          /\ Answer(Response("delete", a, 500, "Internal Server Error", "orch"))
          /\ clean' = FALSE

\* delete_crawl_config from the await on delete_one on, and the route's answer
delete_crawl_config_store(a) ==
    /\ Resume(a, "delete_store")
    /\ UNCHANGED <<orch, issued, incDone, raced, forked>>
    /\ \/ /\ deleted_count(store, delete_one(store, a.cid, a.archive)) # 0
          /\ store' = delete_one(store, a.cid, a.archive)
          /\ Finish(a, [Response("delete", a, 200, "deleted", "") EXCEPT !.deleted = 1])
          /\ UNCHANGED clean
       \/ /\ deleted_count(store, delete_one(store, a.cid, a.archive)) = 0
          /\ store' = delete_one(store, a.cid, a.archive)
          /\ Finish(a, Response("delete", a, 404, "not found", ""))
          /\ UNCHANGED clean
       \/ /\ UNCHANGED store
          /\ Finish(a, Response("delete", a, 500, "Internal Server Error", "store"))
          /\ clean' = FALSE

\* ---------------------------------------------------- DeleteAllForOwner
\* DELETE "" up to the await on crawl_manager.delete_crawl_configs_for_archive;
\* a failing call may have removed some of the archive's jobs already
delete_crawl_configs_dereg(archive) ==
    /\ Start
    /\ forked' = {}
    /\ UNCHANGED <<store, issued, incDone, raced>>
    /\ LET a == Op("deleteall_store", 0, archive, "", FALSE,
                   <<"delete_crawl_configs_for_archive">>, 0, FALSE, FALSE) IN
       \/ /\ orch' = deregisterArchive(orch, archive)
          /\ Suspend(a)
          /\ clean' = (clean /\ AllIdle)
       \/ /\ \E gone \in SUBSET ArchiveJobs(orch, archive) :
                /\ gone # ArchiveJobs(orch, archive) \/ gone = {}
                /\ orch' = Drop(orch, gone)
          /\ Answer(Response("deleteall", a, 500, "Internal Server Error", "orch"))
          /\ clean' = FALSE

\* faulty variant: a delete_many that raises has removed the records all the same
delete_crawl_configs_store_partial(a) ==
    /\ Resume(a, "deleteall_store")
    /\ UNCHANGED <<orch, issued, incDone, raced, forked>>
    /\ \/ /\ store' = delete_many(store, a.archive)
          /\ Finish(a, [Response("deleteall", a, 200, "deleted", "") EXCEPT
                          !.deleted = deleted_count(store, delete_many(store, a.archive))])
          /\ UNCHANGED clean
       \/ /\ store' = delete_many(store, a.archive)
          /\ Finish(a, Response("deleteall", a, 500, "Internal Server Error", "store"))
          /\ clean' = FALSE

\* delete_crawl_configs from the await on delete_many on, and the route's answer
delete_crawl_configs_store(a) ==
    /\ Resume(a, "deleteall_store")
    /\ UNCHANGED <<orch, issued, incDone, raced, forked>>
    /\ \/ /\ store' = delete_many(store, a.archive)
          /\ Finish(a, [Response("deleteall", a, 200, "deleted", "") EXCEPT
                          !.deleted = deleted_count(store, delete_many(store, a.archive))])
          /\ UNCHANGED clean
       \/ /\ UNCHANGED store
          /\ Finish(a, Response("deleteall", a, 500, "Internal Server Error", "store"))
          /\ clean' = FALSE

Next ==
    \/ \E config \in CrawlConfigIn, archive \in Archives, user \in Users :
          add_crawl_config_insert(config, archive, user)
    \/ \E a \in Handlers : add_crawl_config_register(a)
    \/ \E cid \in Ids, schedule \in Schedules, archive \in Archives :
          update_crawl_schedule_store(cid, schedule, archive)
    \/ \E a \in Handlers : update_crawl_schedule_orch(a)
    \/ \E cid \in Ids : inc_crawls(cid)
    \/ \E cid \in Ids, archive \in Archives : run_now_get(cid, archive)
    \/ \E a \in Handlers : run_now_orch(a)
    \/ \E cid \in Ids, archive \in Archives : delete_crawl_config_dereg(cid, archive)
    \/ \E a \in Handlers : delete_crawl_config_store(a)
    \/ \E archive \in Archives : delete_crawl_configs_dereg(archive)
    \/ \E a \in Handlers : delete_crawl_configs_store(a)

Spec == Init /\ [][Next]_vars

\* ============================================================== claims
\* a request starts in this step and its handler suspends as a
Started(a) == inflight' = inflight (+) SetToBag({a})

\* suspended handler a answers in this step
Completed(a) == a \in Handlers /\ inflight' = inflight (-) SetToBag({a})

\* an operation starts and is answered within this one step
OneShot == ops' = ops + 1 /\ inflight' = inflight

Scheduled(cid) == cid \in DOMAIN store /\ store[cid].schedule # ""

\* the caller's archive holds a record with that id
InArchive(cid, archive) == cid \in DOMAIN store /\ store[cid].archive = archive

\* C1: after any sequential, fault-free run of operations issued by the
\* owning archive, with no operation in progress, a recurring job is
\* registered for an id exactly when its record is stored with a non-empty
\* schedule; after a successful Delete(id) the record cannot be found and
\* no job for id is registered.
C1_JobIffScheduled ==
    (clean /\ AllIdle) =>
        /\ \A cid \in Ids : HasJob(cid) <=> Scheduled(cid)
        /\ (ret.op = "delete" /\ ret.status = 200) =>
              /\ ~InArchive(ret.cid, ret.archive)
              /\ ret.cid \notin DOMAIN orch

C1_Witness ==
    /\ clean /\ AllIdle
    /\ ret.op = "delete" /\ ret.status = 200
    /\ \E cid \in Ids : HasJob(cid) /\ Scheduled(cid)

\* C2: Delete deregisters the orchestrator job before it removes the store
\* record; when the deregistration fails the store is left as it was and
\* the caller gets an error.
C2_DeleteKeepsRecordOnDeregFailure ==
    [][ /\ (ret'.op = "delete" /\ ret'.failed = "orch")
            => (store' = store /\ ret'.status >= 400)
        /\ \A a \in Handlers :
              (a.pc = "delete_store" /\ Completed(a) /\ store' # store)
                 => a.calls = <<"delete_crawl_config_by_id">> ]_vars

C2_Witness ==
    /\ ret.op = "delete" /\ ret.failed = "orch" /\ ret.status = 500
    /\ InArchive(ret.cid, ret.archive)

\* C3: when Create's insert succeeded and the registration call fails, the
\* caller gets an error and the inserted record is not rolled back: the
\* failing step leaves the store as it was, so the record is still returned
\* by a lookup with its id and owner.
C3_CreateNotRolledBack ==
    [][ (ret'.op = "add" /\ ret'.failed = "orch")
          => /\ ret'.status >= 400
             /\ store' = store
             /\ (ret'.cid \in DOMAIN store
                   => /\ store'[ret'.cid].archive = ret'.archive
                      /\ store'[ret'.cid] = store[ret'.cid]) ]_vars

C3_Witness ==
    /\ ret.op = "add" /\ ret.failed = "orch" /\ ret.status = 500
    /\ InArchive(ret.cid, ret.archive)
    /\ ret.cid \notin DOMAIN orch

\* C4: the crawlCount of an existing record equals the number of
\* IncrementRunCount calls that returned for it, whatever the order in
\* which concurrent calls were applied (no lost update).
C4_NoLostIncrement ==
    \A cid \in DOMAIN store : store[cid].crawlCount = incDone[cid]

C4_Witness ==
    \E cid \in DOMAIN store : store[cid].crawlCount = 2 /\ incDone[cid] = 2

\* C5: IncrementRunCount for an id without a stored record raises nothing
\* for the missing record, creates no record and changes neither the store
\* nor the orchestrator.
C5_IncrementAbsentIsNoop ==
    [][ (ret'.op = "inc" /\ ret'.cid \notin DOMAIN store)
          => /\ store' = store
             /\ orch' = orch
             /\ (ret'.detail = "raised" => ret'.failed = "store") ]_vars

C5_Witness ==
    /\ ret.op = "inc" /\ ret.detail = "returned"
    /\ ret.cid \notin DOMAIN store
    /\ ret.cid <= issued
    /\ DOMAIN store # {}

\* C6: UpdateSchedule(id, s) applied right after a successful
\* UpdateSchedule(id, s), neither overlapping any other operation, changes
\* nothing: neither its store step nor its
\* orchestrator step alters the stored records or the orchestrator state,
\* which holds one registration per id.
C6_UpdateScheduleIdempotent ==
    [][ /\ \A a \in BagToSet(inflight') :
              (AllIdle /\ Started(a) /\ a.pc = "update_orch" /\ Updated(a.cid, a.schedule))
                 => (store' = store /\ orch' = orch /\ a.again /\ a.solo = ops')
        /\ \A a \in Handlers :
              (a.pc = "update_orch" /\ Completed(a) /\ a.again /\ a.solo = ops /\ ret'.status = 200)
                 => (store' = store /\ orch' = orch) ]_vars

C6_Witness ==
    /\ ret.op = "update" /\ ret.status = 200 /\ ret.again /\ ret.solo = ops
    /\ ret.schedule # ""
    /\ HasJob(ret.cid) /\ Scheduled(ret.cid)
    /\ orch[ret.cid].schedule = ret.schedule /\ store[ret.cid].schedule = ret.schedule

\* C7: UpdateSchedule for an id without a stored record answers not-found,
\* makes no orchestrator call and leaves the store unchanged.
C7_UpdateAbsentNotFound ==
    [][ /\ (ret'.op = "update" /\ ret'.cid \notin DOMAIN store /\ OneShot)
            => /\ (ret'.failed = "" => ret'.status = 404)
               /\ ret'.calls = <<>>
               /\ store' = store
               /\ orch' = orch
        /\ \A a \in BagToSet(inflight') :
              (Started(a) /\ a.pc = "update_orch") => a.cid \in DOMAIN store ]_vars

C7_Witness ==
    /\ ret.op = "update" /\ ret.status = 404 /\ ret.calls = <<>>
    /\ ret.cid \notin DOMAIN store
    /\ DOMAIN store # {}

\* C8: TriggerRun for an id that has no record in the caller's archive
\* answers NotFound and issues no orchestrator call.
C8_TriggerRunNotFound ==
    [][ /\ (ret'.op = "run" /\ ~InArchive(ret'.cid, ret'.archive) /\ OneShot)
            => /\ (ret'.failed = "" => ret'.status = 404)
               /\ ret'.calls = <<>>
               /\ orch' = orch
        /\ \A a \in BagToSet(inflight') :
              (Started(a) /\ a.pc = "run_orch") => InArchive(a.cid, a.archive) ]_vars

C8_Witness ==
    /\ ret.op = "run" /\ ret.status = 404 /\ ret.calls = <<>>
    /\ ret.cid \in DOMAIN store /\ store[ret.cid].archive # ret.archive

\* C9: no step of TriggerRun changes the store, whether the run is started,
\* the record is not found or the orchestrator call fails.
C9_TriggerRunKeepsStore ==
    [][ ( \/ ret'.op = "run"
          \/ \E a \in BagToSet(inflight') : Started(a) /\ a.pc = "run_orch"
          \/ \E a \in Handlers : Completed(a) /\ a.pc = "run_orch" )
        => store' = store ]_vars

C9_Witness ==
    /\ ret.op = "run" /\ ret.status = 200 /\ ret.calls = <<"run_crawl_config">>
    /\ ret.cid \in DOMAIN store /\ store[ret.cid].crawlCount = 0

\* no Delete or UpdateSchedule for cid is in progress
Settled(cid) ==
    \A a \in Handlers : a.pc \in {"update_orch", "delete_store"} => a.cid # cid

\* C10: once a Delete(id) and an UpdateSchedule(id, s) with non-empty s that
\* overlapped have both finished and the record is gone from the store, no
\* recurring job for id is registered.
C10_NoOrphanAfterRace ==
    \A cid \in raced : (Settled(cid) /\ cid \notin DOMAIN store) => ~HasJob(cid)

\* C11: once two UpdateSchedule calls for the same existing id with different
\* schedules that overlapped have both succeeded and finished, the schedule
\* the orchestrator holds for the id equals the schedule stored in the record.
C11_ConcurrentUpdatesAgree ==
    \A cid \in forked :
        (Settled(cid) /\ cid \in DOMAIN store /\ cid \in DOMAIN orch)
            => orch[cid].schedule = store[cid].schedule

\* in a history that was sequential, fault free and owner-issued so far, this
\* step starts an UpdateSchedule on an existing record for a caller whose
\* archive does not own it (the only way such a step ends that history), and
\* leaves its handler a waiting for the orchestrator call
UpdateByNonOwner(a) ==
    /\ clean /\ AllIdle /\ ~clean'
    /\ Started(a) /\ a.pc = "update_orch"
    /\ a.cid \in DOMAIN store

\* C12: UpdateSchedule(id, s) requested for archive B on a record owned by
\* another archive A leaves the stored schedule of that record as it was
\* (it is to fail with NotFound, changing neither store nor orchestrator).
C12_UpdateByNonOwnerChangesNothing ==
    [][ \A a \in BagToSet(inflight') :
           UpdateByNonOwner(a) => store'[a.cid].schedule = store[a.cid].schedule ]_vars

Mutating == {"add", "update", "delete", "deleteall"}

\* C13 as stated: whenever the store call of a mutating operation fails, no
\* orchestrator call has been attempted during that operation.
C13_StoreFailureNoOrchCall ==
    [][ (ret'.op \in Mutating /\ ret'.failed = "store") => ret'.calls = <<>> ]_vars

\* C13 amended: a failing store call changes neither store nor orchestrator
\* in its own step. For Create and UpdateSchedule it is the operation's first
\* step and no orchestrator call has been attempted; Delete and
\* DeleteAllForOwner have made their deregistration call before it.
C13_StoreFailureByOperation ==
    [][ (ret'.op \in Mutating /\ ret'.failed = "store")
          => /\ store' = store
             /\ orch' = orch
             /\ (ret'.op \in {"add", "update"} => (OneShot /\ ret'.calls = <<>>))
             /\ (ret'.op = "delete" => ret'.calls = <<"delete_crawl_config_by_id">>)
             /\ (ret'.op = "deleteall"
                   => ret'.calls = <<"delete_crawl_configs_for_archive">>) ]_vars

C13_Witness ==
    /\ ret.op = "deleteall" /\ ret.failed = "store"
    /\ \E cid \in DOMAIN store :
          /\ store[cid].archive = ret.archive
          /\ store[cid].schedule # ""
          /\ cid \notin DOMAIN orch

\* C14: the outcome UpdateSchedule gives its caller when the store update
\* succeeded and the orchestrator reconciliation failed is none of the
\* outcomes it gives when the store update itself failed.
C14_OrchFailureToldApart ==
    (ret.op = "update" /\ ret.failed = "orch")
        => [status |-> ret.status, detail |-> ret.detail] \notin UpdateStoreFailures

\* C15: in every step, a record that stays in the store keeps or raises its
\* crawlCount; it changes only in a step of IncrementRunCount for that id,
\* by exactly 1; a record that enters the store has crawlCount 0; and every
\* other step changes at most the schedule field of a record.
C15_CrawlCountOnlyIncrements ==
    [][ /\ \A cid \in (DOMAIN store) \cap (DOMAIN store') :
              /\ store'[cid].crawlCount >= store[cid].crawlCount
              /\ store'[cid].crawlCount # store[cid].crawlCount
                    => /\ ret'.op = "inc" /\ ret'.cid = cid /\ ret'.detail = "returned"
                       /\ store'[cid].crawlCount = store[cid].crawlCount + 1
              /\ store'[cid] = [store[cid] EXCEPT !.schedule = store'[cid].schedule,
                                                  !.crawlCount = store'[cid].crawlCount]
        /\ \A cid \in (DOMAIN store') \ (DOMAIN store) : store'[cid].crawlCount = 0 ]_vars

C15_Witness ==
    /\ ret.op = "update" /\ ret.status = 200
    /\ ret.cid \in DOMAIN store
    /\ store[ret.cid].crawlCount >= 1
    /\ store[ret.cid].schedule = ret.schedule /\ ret.schedule # ""

C17_RetryReconciles ==
    [][ /\ (AllIdle /\ OneShot /\ ret'.op = "update" /\ Unsynced(ret'.cid, ret'.schedule))
            => (ret'.failed = "store" /\ store' = store /\ orch' = orch)
        /\ \A a \in BagToSet(inflight') :
              (AllIdle /\ Started(a) /\ a.pc = "update_orch" /\ Unsynced(a.cid, a.schedule))
                 => (a.retry /\ a.solo = ops' /\ store' = store /\ orch' = orch)
        /\ \A a \in Handlers :
              (a.pc = "update_orch" /\ Completed(a) /\ a.retry /\ a.solo = ops)
                 => /\ store' = store
                    /\ ret'.calls = <<"update_crawl_schedule">>
                    /\ ret'.status = 200
                          => /\ store'[a.cid].schedule = a.schedule
                             /\ HasJob(a.cid)' <=> a.schedule # ""
                             /\ a.cid \in DOMAIN orch'
                                   => orch'[a.cid].schedule = a.schedule ]_vars

C17_Witness ==
    /\ ret.op = "update" /\ ret.status = 200 /\ ret.retry /\ ret.solo = ops
    /\ ret.schedule # ""
    /\ HasJob(ret.cid) /\ orch[ret.cid].schedule = ret.schedule
    /\ store[ret.cid].schedule = ret.schedule

\* the answer's body holds a number of configurations: of the answers to
\* DeleteAllForOwner only {"deleted": n} does
CarriesCount(r) == r.op = "deleteall" /\ r.detail = "deleted"

\* C18: when the deregistration of DeleteAllForOwner fails and leaves jobs of
\* the owner registered, the result given to the caller states how many
\* configurations remain.
C18_PartialFailureCounted ==
    [][ (ret'.op = "deleteall" /\ ret'.failed = "orch"
           /\ ArchiveJobs(orch', ret'.archive) # {})
          => CarriesCount(ret') ]_vars

\* C19: every record in the store has parallelism of at least 1 (a Create
\* whose input has less is to fail before any mutation).
C19_ParallelAtLeastOne ==
    \A cid \in DOMAIN store : store[cid].parallel >= 1

\* C20: the first step of a Delete(id) issued for an archive that does not
\* own the stored record with that id, which will remove no record and
\* answer not-found, leaves a recurring job registered for the record
\* registered.
C20_FruitlessDeleteKeepsJob ==
    [][ \A a \in BagToSet(inflight') :
           (Started(a) /\ a.pc = "delete_store"
              /\ a.cid \in DOMAIN store /\ store[a.cid].archive # a.archive)
             => (HasJob(a.cid) => HasJob(a.cid)') ]_vars

====
